---- MODULE Spec2Model ----
(***************************************************************************)
(* acr purge / acr unarchive (AzureCR/acr-cli).                            *)
(*                                                                         *)
(* The coordinator (newPurgeCmd -> PurgeTags -> PurgeDanglingManifests),   *)
(* its goroutines (Untag, HandleManifest) and the unarchive command, run   *)
(* against a registry that holds a source and an archive repository.       *)
(* Every registry call is one step whose outcome is drawn from the         *)
(* outcomes the facade in cmd/api/acrsdk.go can return: success, an error, *)
(* or (for calls that carry a payload the caller decodes) a payload that   *)
(* does not decode.                                                        *)
(***************************************************************************)
EXTENDS Integers, Sequences, FiniteSets, TLC

(***************************************************************************)
(* Bounds of the model.                                                    *)
(***************************************************************************)
NumTags == 3
NumDigests == 3
\* page size of a list call and capacity of the error channel: both are 100
\* in the source (acrsdk.go:64, acrsdk.go:145, purge.go:245, purge.go:371)
MaxEntries == 2
\* longest --ago string ParseDuration is run on by itself
MaxAgoLen == 4

TagIds == 1..NumTags
ContentIds == 1..NumDigests

\* "no manifest" and "no ArchiveRecord"
None == [c |-> 0, compact |-> FALSE]
NoRecord == [digest |-> <<>>, repo |-> <<>>, tags |-> <<>>]

(***************************************************************************)
(* Time.  Instants are hours; Now is time.Now().UTC() of the run.          *)
(***************************************************************************)
Now == NumTags + 1

(***************************************************************************)
(* ParseDuration.  Strings are sequences of characters, durations are      *)
(* hours.  The inputs are written over digits, "d", "h" and "-" (and two   *)
(* words of other letters): they hold no space, so a %s verb               *)
(* takes all that is left, and "h" is the only unit of time.ParseDuration  *)
(* they can spell.  A result is [err, dur]; an error comes with dur 0.     *)
(***************************************************************************)
DigitChars == <<"0", "1", "2", "3", "4", "5", "6", "7", "8", "9">>

IsDigit(ch) == \E i \in 1..Len(DigitChars) : DigitChars[i] = ch

DigitValue(ch) == (CHOOSE i \in 1..Len(DigitChars) : DigitChars[i] = ch) - 1

RECURSIVE DigitRun(_)
\* how many digits s starts with
DigitRun(s) ==
    IF s # <<>> /\ IsDigit(Head(s)) THEN 1 + DigitRun(Tail(s)) ELSE 0

RECURSIVE UnitRun(_)
\* how many characters s starts with that are not digits
UnitRun(s) ==
    IF s # <<>> /\ ~IsDigit(Head(s)) THEN 1 + UnitRun(Tail(s)) ELSE 0

RECURSIVE DecimalValue(_)
DecimalValue(digits) ==
    IF digits = <<>> THEN 0
    ELSE 10 * DecimalValue(SubSeq(digits, 1, Len(digits) - 1))
         + DigitValue(digits[Len(digits)])

Contains(s, ch) == \E i \in 1..Len(s) : s[i] = ch

\* the %d verb of fmt.Sscanf: an optional sign and at least one digit
ScanInt(s) ==
    LET signed == s # <<>> /\ s[1] \in {"+", "-"}
        body == IF signed THEN Tail(s) ELSE s
        n == DigitRun(body)
    IN [ok |-> n > 0,
        val |-> (IF signed /\ s[1] = "-" THEN -1 ELSE 1)
                * DecimalValue(SubSeq(body, 1, n)),
        rest |-> SubSeq(body, n + 1, Len(body))]

\* fmt.Sscanf(ago, "%dd%s", &days, &durationString): days is stored as soon
\* as the integer is read; the call fails on a missing integer, a missing
\* "d", or nothing left for %s
SscanfDaysAndRest(ago) ==
    LET n == ScanInt(ago) IN
    IF ~n.ok THEN [err |-> TRUE, days |-> 0, rest |-> <<>>]
    ELSE IF n.rest = <<>> \/ Head(n.rest) # "d"
        THEN [err |-> TRUE, days |-> n.val, rest |-> <<>>]
    ELSE IF Tail(n.rest) = <<>>
        THEN [err |-> TRUE, days |-> n.val, rest |-> <<>>]
    ELSE [err |-> FALSE, days |-> n.val, rest |-> Tail(n.rest)]

\* fmt.Sscanf(ago, "%dd", &days): days as it is after the call
SscanfDays(ago, days) ==
    LET n == ScanInt(ago) IN IF n.ok THEN n.val ELSE days

RECURSIVE DurationGroups(_)
\* the loop of time.ParseDuration: number, unit, number, unit, ...
DurationGroups(s) ==
    IF s = <<>> THEN [err |-> FALSE, dur |-> 0]
    ELSE LET n == DigitRun(s)
             afterNumber == SubSeq(s, n + 1, Len(s))
             u == UnitRun(afterNumber)
             unit == SubSeq(afterNumber, 1, u)
             r == DurationGroups(SubSeq(afterNumber, u + 1, Len(afterNumber)))
         IN IF n = 0 \/ u = 0 \/ unit # <<"h">> \/ r.err
               THEN [err |-> TRUE, dur |-> 0]
               ELSE [err |-> FALSE,
                     dur |-> DecimalValue(SubSeq(s, 1, n)) + r.dur]

\* time.ParseDuration(s)
TimeParseDuration(s) ==
    LET signed == s # <<>> /\ s[1] \in {"+", "-"}
        body == IF signed THEN Tail(s) ELSE s
        g == DurationGroups(body)
    IN IF body = <<"0">> THEN [err |-> FALSE, dur |-> 0]
       ELSE IF body = <<>> \/ g.err THEN [err |-> TRUE, dur |-> 0]
       ELSE [err |-> FALSE,
             dur |-> (IF signed /\ s[1] = "-" THEN -1 ELSE 1) * g.dur]

\* a ParseDuration that takes a day for an hour
ParseDurationDayAsHour(ago) ==
    LET first == SscanfDaysAndRest(ago)
        days == IF ~Contains(ago, "d") THEN 0 ELSE first.days
        durationString ==
            IF ~Contains(ago, "d") THEN ago
            ELSE IF first.err THEN <<>> ELSE first.rest
        agoDuration == TimeParseDuration(durationString)
    IN IF ~Contains(ago, "d") /\ ago = <<>> THEN [err |-> TRUE, dur |-> 0]
       ELSE IF Len(durationString) > 0 /\ agoDuration.err
          THEN [err |-> TRUE, dur |-> 0]
       ELSE [err |-> FALSE,
             dur |-> -1 * (days + (IF Len(durationString) > 0
                                      THEN agoDuration.dur ELSE 0))]

ParseDuration(ago) ==
    LET first == SscanfDaysAndRest(ago)
        days ==
            IF ~Contains(ago, "d") THEN 0
            ELSE IF first.err THEN SscanfDays(ago, first.days) ELSE first.days
        durationString ==
            IF ~Contains(ago, "d") THEN ago
            ELSE IF first.err THEN <<>> ELSE first.rest
        duration == days * 24
        agoDuration == TimeParseDuration(durationString)
    IN IF ~Contains(ago, "d") /\ ago = <<>> THEN [err |-> TRUE, dur |-> 0]
       ELSE IF Len(durationString) > 0 /\ agoDuration.err
          THEN [err |-> TRUE, dur |-> 0]
       ELSE [err |-> FALSE,
             dur |-> -1 * (duration + (IF Len(durationString) > 0
                                          THEN agoDuration.dur ELSE 0))]

\* the value of ago before ParseDuration has returned
NotParsed == [err |-> TRUE, dur |-> 1]

\* the --ago strings offered to a purge run: "0d", "1h" and "abc"
AgoSamples == { <<"0", "d">>, <<"1", "h">>, <<"a", "b", "c">> }

\* results of ParseDuration(ago) offered to a run: [err, dur]
AgoResults == { ParseDuration(a) : a \in AgoSamples }

\* the --ago strings ParseDuration is run on by itself
AgoAlphabet == {"0", "1", "d", "h", "-"}

AgoWords ==
    { <<"3", "d", "1", "2", "h">>, <<"1", "2", "h">>, <<"2", "d">>,
      <<"1", "2", "h", "3", "0", "d">>,
      <<"a", "b", "c">>, <<"a", "b", "c", "d">> }

AgoInputs ==
    UNION { [1..n -> AgoAlphabet] : n \in 0..MaxAgoLen } \cup AgoWords

(***************************************************************************)
(* Filters.  "" is "no filter"; "^o" stands for a valid expression (it     *)
(* matches the odd tag names), "(" for one regexp.Compile rejects.         *)
(***************************************************************************)
Filters == {"", "^o", "("}

CompileFails(f) == f = "("

MatchString(f, tagName) ==
    CASE f = "" -> TRUE
      [] f = "^o" -> tagName % 2 = 1
      [] OTHER -> FALSE

(***************************************************************************)
(* Repositories.                                                           *)
(***************************************************************************)
RepoName == <<"r", "e", "p", "o">>
ArchiveRepo == "archive"

(***************************************************************************)
(* Manifests and digests.  A manifest body is its content (config and      *)
(* layers) in one of two byte forms: the compact form json.Marshal gives   *)
(* a ManifestV2, or any other form (indented, extra fields).  The digest   *)
(* is the hash of the bytes, so the two forms of one content differ in     *)
(* digest.  Digest strings are "sha256:" and nine hash characters; the     *)
(* contents with odd ids share their first eight hash characters, and so   *)
(* do those with even ids.                                                 *)
(***************************************************************************)
Manifests == [c : ContentIds, compact : BOOLEAN]

OrigCompact(c) == c = 2

Orig(c) == [c |-> c, compact |-> OrigCompact(c)]

OrigManifests == { Orig(c) : c \in ContentIds }

Sha256 == <<"s", "h", "a", "2", "5", "6", ":">>

Digits == <<"1", "2", "3", "4", "5", "6", "7", "8", "9">>

Rep8(ch) == <<ch, ch, ch, ch, ch, ch, ch, ch>>

Digest(m) ==
    Sha256 \o
    (IF m.compact = OrigCompact(m.c)
        THEN Rep8(IF m.c % 2 = 1 THEN "a" ELSE "b")
        ELSE Rep8("f")) \o
    <<Digits[m.c]>>

\* the order in which the registry lists manifests (by digest string)
DigestRank(m) ==
    IF m.compact = OrigCompact(m.c)
        THEN (IF m.c % 2 = 1 THEN m.c ELSE 100 + m.c)
        ELSE 200 + m.c

\* GetManifest of cmd/api decodes the body into a ManifestV2 (schema version,
\* media type, config, layers) and PutManifest sends json.Marshal of the
\* struct: the struct stands for its compact JSON text
DecodeManifestV2(m) == [c |-> m.c, compact |-> TRUE]

\* blobs: <<c, 0>> is the config of content c, <<c, k>> its k-th layer
NumLayers(c) == 1 + (c % 2)

ConfigBlob(m) == <<m.c, 0>>

Layers(m) == [k \in 1..NumLayers(m.c) |-> <<m.c, k>>]

\* the name --tag-name may give to unarchive; 0 stands for "" (not given)
NewTag == NumTags + 1

TagNames == TagIds \cup {NewTag}

(***************************************************************************)
(* State.                                                                  *)
(***************************************************************************)
VARIABLES
    \* the flags of the purge command and the age the run was given
    dangling, archive, filter, ago, agoString,
    \* source repository: tag -> manifest, the manifests, their
    \* "acrarchiveinfo" metadata, and each tag's lastUpdateTime
    srcTag, srcManifests, srcMeta, tagTime,
    \* archive repository: tag -> manifest, tag metadata, the manifests
    arcTag, arcTagMeta, arcManifests,
    \* the coordinator: where it is, its cutoff, the page it walks, the
    \* index of the next entry of the page, and what RunE returned
    pc, timeToCompare, page, idx, result,
    \* the goroutines in flight: Untag per tag, HandleManifest per manifest
    tasks, hmPc, hmMeta, hmMounts,
    \* the error channel of the running Purge* function
    errorChannel, chanClosed,
    \* what was observed of the run: list requests, delete requests and
    \* printed lines per identifier, the failures of tasks, the manifests a
    \* HandleManifest task pushed to the archive, and whether any registry
    \* call failed (other than "no such metadata")
    lists, tagDeletes, manDeletes, printedTags, printedManifests, failures,
    hmPushed, callFailed,
    \* the errors sent on errorChannel, and per manifest the tags whose
    \* ArchiveRecord entry was persisted, in the order of the updates
    sent, archivedTags,
    \* the unarchive command: where it is, its --reference and --tag-name,
    \* the record and the manifest it fetched, the blobs it mounted, the tags
    \* it pushed, the digest AcrGetTagAttributes gave, and what its RunE
    \* returned
    upc, reference, newTagName, uMeta, uManifest, uMounts, uPuts, uTagInfo,
    uResult

flagVars == <<dangling, archive, filter, ago, agoString, tagTime>>
unarchiveVars ==
    <<upc, reference, newTagName, uMeta, uManifest, uMounts, uPuts, uTagInfo,
      uResult>>
\* what no step of the purge command changes
inputVars == <<flagVars, unarchiveVars>>
srcVars == <<srcTag, srcManifests, srcMeta>>
arcVars == <<arcTag, arcTagMeta, arcManifests>>
hmVars == <<hmPc, hmMeta, hmMounts, hmPushed>>
purgeVars ==
    <<dangling, archive, filter, ago, agoString, tagTime, srcTag, srcManifests, srcMeta,
      arcTag, arcTagMeta, arcManifests, pc, timeToCompare, page, idx, result,
      tasks, hmPc, hmMeta, hmMounts, errorChannel, chanClosed, lists,
      tagDeletes, manDeletes, printedTags, printedManifests, failures,
      hmPushed, callFailed, sent, archivedTags>>

vars == <<purgeVars, unarchiveVars>>

\* an error names the operation that failed, the item (a tag name, a digest
\* or a cursor, as a string) and the page (list request) it happened in
Nil == [op |-> "nil", item |-> <<>>, page |-> 0]
Pending == [op |-> "pending", item |-> <<>>, page |-> 0]

\* an error channel smaller than a page
ErrorChannelCapBelowPage == MaxEntries - 1

\* capacity of errorChannel: make(chan error, 100), as large as a page
ErrorChannelCap == MaxEntries

(***************************************************************************)
(* Helpers.                                                                *)
(***************************************************************************)
RECURSIVE Ordered(_, _)
\* the elements of S in ascending order of rank[x]
Ordered(S, rank) ==
    IF S = {} THEN <<>>
    ELSE LET x == CHOOSE y \in S : \A z \in S : rank[y] <= rank[z]
         IN <<x>> \o Ordered(S \ {x}, rank)

FirstN(s, n) == SubSeq(s, 1, IF Len(s) < n THEN Len(s) ELSE n)

\* strings.HasPrefix(s, prefix)
HasPrefix(s, prefix) ==
    Len(prefix) <= Len(s) /\ SubSeq(s, 1, Len(prefix)) = prefix

\* Before as "not after"
BeforeOrEqual(t, u) == t <= u

\* t.Before(u) of package time
Before(t, u) == t < u

\* a tag name made of seven characters of the hash
ArchiveTagNameShort(repo, digest) ==
    repo \o SubSeq(digest, Len(Sha256) + 1, Len(Sha256) + 7)

\* newTagName := repoName + digest[len("sha256:"):len("sha256:")+8]
ArchiveTagName(repo, digest) ==
    repo \o SubSeq(digest, Len(Sha256) + 1, Len(Sha256) + 8)

ArcNames == { ArchiveTagName(RepoName, Digest(m)) : m \in Manifests }

\* api.AcrTags{Name, ArchiveTime} and api.AcrManifestMetadata{Digest,
\* OriginalRepo, Tags}; json.Marshal followed by json.Unmarshal gives the
\* same struct back (all fields are strings), so a stored record stands for
\* its JSON text
AcrTags(name, archiveTime) == [name |-> name, archiveTime |-> archiveTime]

NewMetadata(digest, repo, tagMetadata) ==
    [digest |-> digest, repo |-> repo, tags |-> <<tagMetadata>>]

AppendMetadata(metadataObject, tagMetadata) ==
    [metadataObject EXCEPT !.tags = Append(@, tagMetadata)]

\* a tag name as a string; 0 is ""
TagString(t) == IF t = 0 THEN <<>> ELSE <<t>>

Err(op, item) == [op |-> op, item |-> item, page |-> Len(lists)]

(***************************************************************************)
(* The registry, as the facade shows it.                                   *)
(***************************************************************************)
\* a listing that resumes one name too far after the cursor
TagsAfterSkipping(last) ==
    FirstN(Ordered({ t \in TagNames : srcTag[t] # None /\ t > last + 1 },
                   [t \in TagNames |-> t]),
           MaxEntries)

\* AcrListTags(orderBy "", last): the next page, at most MaxEntries tags
\* after the cursor in name order ("" is before every name)
TagsAfter(last) ==
    FirstN(Ordered({ t \in TagNames : srcTag[t] # None /\ t > last },
                   [t \in TagNames |-> t]),
           MaxEntries)

\* AcrListManifests(orderBy "", last): the next page, at most MaxEntries
\* manifests after the cursor in digest order, each with its tags
CursorRank(last) ==
    IF last = <<>> THEN 0
    ELSE DigestRank(CHOOSE m \in Manifests : Digest(m) = last)

ManifestsAfter(last) ==
    FirstN(Ordered({ m \in srcManifests : DigestRank(m) > CursorRank(last) },
                   [m \in Manifests |-> DigestRank(m)]),
           MaxEntries)

TagsOf(m) == { t \in TagNames : srcTag[t] = m }

\* DeleteManifest by digest: the manifest goes, with the tags that point at
\* it and its metadata
SrcAfterDeleteManifest(digest) ==
    LET gone == { m \in srcManifests : Digest(m) = digest } IN
    /\ srcManifests' = srcManifests \ gone
    /\ srcTag' = [t \in TagNames |-> IF srcTag[t] \in gone THEN None ELSE srcTag[t]]
    /\ srcMeta' = [m \in Manifests |-> IF m \in gone THEN NoRecord ELSE srcMeta[m]]

(***************************************************************************)
(* Init: the purge command is about to run RunE on a repository in which   *)
(* every tag points at one of the manifests (tags in name order point at   *)
(* manifests in content order, so that tags share a manifest within a page *)
(* and across pages, and manifests may start out untagged), nothing is     *)
(* archived yet, and the tags were last updated at different hours before  *)
(* Now: the first tag in name order is the newest, the second the oldest.  *)
(***************************************************************************)
InitRegistry ==
    /\ tagTime = [t \in TagIds |-> ((t - 2) % NumTags) + 1]
    /\ srcTag \in { f \in [TagNames -> OrigManifests \cup {None}] :
                      /\ f[NewTag] = None
                      /\ \A t \in TagIds : f[t] # None
                      /\ \A t, u \in TagIds : t < u => f[t].c <= f[u].c }
    /\ srcManifests = OrigManifests
    /\ srcMeta = [m \in Manifests |-> NoRecord]
    /\ arcTag = [n \in ArcNames |-> None]
    /\ arcTagMeta = [n \in ArcNames |-> NoRecord]
    /\ arcManifests = {}
    /\ pc = "RunE"
    /\ timeToCompare = 0
    /\ page = <<>>
    /\ idx = 1
    /\ result = Pending
    /\ tasks = {}
    /\ hmPc = [m \in Manifests |-> "none"]
    /\ hmMeta = [m \in Manifests |-> NoRecord]
    /\ hmMounts = [m \in Manifests |-> <<>>]
    /\ hmPushed = [m \in Manifests |-> FALSE]
    /\ errorChannel = <<>>
    /\ chanClosed = FALSE
    /\ lists = <<>>
    /\ tagDeletes = [t \in TagNames |-> 0]
    /\ manDeletes = [m \in Manifests |-> 0]
    /\ printedTags = [t \in TagNames |-> 0]
    /\ printedManifests = [m \in Manifests |-> 0]
    /\ failures = {}
    /\ callFailed = FALSE
    /\ sent = {}
    /\ archivedTags = [m \in Manifests |-> <<>>]
    /\ upc = "idle"
    /\ reference = <<>>
    /\ newTagName = 0
    /\ uMeta = NoRecord
    /\ uManifest = None
    /\ uMounts = <<>>
    /\ uPuts = <<>>
    /\ uTagInfo = <<>>
    /\ uResult = Pending

\* the flags of the run; ParseDuration(ago) is what PurgeTags will get
Init ==
    /\ dangling \in BOOLEAN
    /\ archive \in {"", ArchiveRepo}
    /\ filter \in Filters
    /\ agoString \in AgoSamples
    /\ ago = ParseDuration(agoString)
    /\ InitRegistry

(***************************************************************************)
(* Returning from PurgeTags / PurgeDanglingManifests.  An error goes up    *)
(* through RunE; the deferred close(errorChannel) runs on every return     *)
(* after the channel was made.                                             *)
(***************************************************************************)
ReturnErr(e) ==
    /\ pc' = "done"
    /\ result' = e
    /\ chanClosed' = TRUE

\* errorChannel <- err: a send on a closed channel panics
SendErr(e) ==
    /\ failures' = failures \cup {e}
    /\ IF chanClosed
          THEN /\ pc' = "panic"
               /\ UNCHANGED <<errorChannel, sent>>
          ELSE /\ Len(errorChannel) < ErrorChannelCap
               /\ errorChannel' = Append(errorChannel, e)
               /\ sent' = sent \cup {e}
               /\ UNCHANGED pc

\* a list request as the run's history keeps it: what was asked, and whether
\* the call returned an error
ListRequest(request, failed) ==
    [kind |-> request.kind, last |-> request.last, err |-> failed]

\* the history holds a request of AcrListManifests
ManifestListed(history) ==
    \E i \in 1..Len(history) : history[i].kind = "manifests"

\* a listing whose error is taken for the end of the enumeration
ListTagsErrorEndsLoop(last) ==
    LET names == TagsAfter(last)
        request == [kind |-> "tags", last |-> TagString(last)]
    IN
    \/ /\ lists' = Append(lists, ListRequest(request, TRUE))
       /\ callFailed' = TRUE
       /\ page' = <<>>
       /\ idx' = 1
       /\ pc' = "PurgeDangling"
       /\ chanClosed' = TRUE
       /\ UNCHANGED result
    \/ /\ names # <<>>
       /\ lists' = Append(lists, ListRequest(request, FALSE))
       /\ page' = [i \in 1..Len(names) |->
                     [name |-> names[i], digest |-> srcTag[names[i]],
                      timeOk |-> TRUE]]
       /\ idx' = 1
       /\ pc' = "tagsLoop"
       /\ chanClosed' = FALSE
       /\ UNCHANGED <<result, callFailed>>

(***************************************************************************)
(* PurgeTags.                                                              *)
(***************************************************************************)
\* api.AcrListTags(ctx, loginURL, auth, repoName, "", last) and the loop
\* condition "resultTags != nil && resultTags.Tags != nil".  A page that
\* has no entries comes back with Tags nil or with Tags empty; an entry's
\* LastUpdateTime may be a string time.Parse rejects.
ListTags(last) ==
    LET names == TagsAfter(last)
        request == [kind |-> "tags", last |-> TagString(last)]
    IN
    \/ /\ lists' = Append(lists, ListRequest(request, TRUE))
       /\ callFailed' = TRUE
       /\ ReturnErr([op |-> "AcrListTags", item |-> TagString(last), page |-> Len(lists) + 1])
       /\ UNCHANGED <<page, idx>>
    \/ /\ names = <<>>
       /\ lists' = Append(lists, ListRequest(request, FALSE))
       /\ page' = <<>>
       /\ idx' = 1
       /\ \/ pc' = "PurgeDangling" /\ chanClosed' = TRUE
          \/ pc' = "tagsLoop" /\ chanClosed' = FALSE
       /\ UNCHANGED <<result, callFailed>>
    \/ /\ names # <<>>
       /\ lists' = Append(lists, ListRequest(request, FALSE))
       /\ \E bad \in 0..Len(names) :
             /\ page' = [i \in 1..Len(names) |->
                           [name |-> names[i], digest |-> srcTag[names[i]],
                            timeOk |-> i # bad]]
             /\ callFailed' = (callFailed \/ bad # 0)
       /\ idx' = 1
       /\ pc' = "tagsLoop"
       /\ chanClosed' = FALSE
       /\ UNCHANGED result

\* a PurgeTags that lists the first page without looking at the results of
\* ParseDuration and regexp.Compile
PurgeTagsBeginUnvalidated ==
    /\ pc = "RunE"
    /\ ~dangling
    /\ timeToCompare' = Now + ago.dur
    /\ ListTags(0)
    /\ UNCHANGED <<inputVars, srcVars, arcVars, tasks, hmVars, errorChannel,
                   tagDeletes, manDeletes, printedTags, printedManifests,
                   failures, sent, archivedTags>>

\* RunE with !dangling, and PurgeTags up to the first list call
PurgeTagsBegin ==
    /\ pc = "RunE"
    /\ ~dangling
    /\ IF ago.err
          THEN /\ pc' = "done"
               /\ result' = [op |-> "ParseDuration", item |-> <<>>, page |-> 0]
               /\ UNCHANGED <<timeToCompare, page, idx, chanClosed, lists, callFailed>>
          ELSE IF CompileFails(filter)
          THEN /\ pc' = "done"
               /\ result' = [op |-> "regexp.Compile", item |-> <<>>, page |-> 0]
               /\ timeToCompare' = Now + ago.dur
               /\ UNCHANGED <<page, idx, chanClosed, lists, callFailed>>
          ELSE /\ timeToCompare' = Now + ago.dur
               /\ ListTags(0)
    /\ UNCHANGED <<inputVars, srcVars, arcVars, tasks, hmVars, errorChannel,
                   tagDeletes, manDeletes, printedTags, printedManifests,
                   failures, sent, archivedTags>>

\* wg.Add(1); go Untag(...)
LaunchUntag(tagName) ==
    /\ tasks' = tasks \cup {tagName}
    /\ idx' = idx + 1
    /\ UNCHANGED <<pc, result, chanClosed>>

\* an update whose failure is ignored: the tag's Untag is launched all the same
UpdateManifestMetadataUnchecked(tag, metadataObject, getFailed) ==
    \/ /\ tag.digest \in srcManifests
       /\ srcMeta' = [srcMeta EXCEPT ![tag.digest] = metadataObject]
       /\ archivedTags' = [archivedTags EXCEPT ![tag.digest] = Append(@, tag.name)]
       /\ callFailed' = (callFailed \/ getFailed)
       /\ LaunchUntag(tag.name)
    \/ /\ callFailed' = TRUE
       /\ LaunchUntag(tag.name)
       /\ UNCHANGED <<srcMeta, archivedTags>>

\* api.AcrUpdateManifestMetadata(..., *tag.Digest, "acrarchiveinfo", json)
\* and, when it succeeds, the launch of the tag's Untag
UpdateManifestMetadata(tag, metadataObject, getFailed) ==
    \/ /\ tag.digest \in srcManifests
       /\ srcMeta' = [srcMeta EXCEPT ![tag.digest] = metadataObject]
       /\ archivedTags' = [archivedTags EXCEPT ![tag.digest] = Append(@, tag.name)]
       /\ callFailed' = (callFailed \/ getFailed)
       /\ LaunchUntag(tag.name)
    \/ /\ callFailed' = TRUE
       /\ ReturnErr(Err("AcrUpdateManifestMetadata", <<tag.name>>))
       /\ UNCHANGED <<srcMeta, tasks, idx, archivedTags>>

\* the archive branch of the loop body: fetch the ArchiveRecord of the
\* tag's digest; on any error start a new record, else decode and append
ArchiveRecordOf(tag) ==
    LET tagMetadata == AcrTags(tag.name, timeToCompare)
        stored == srcMeta[tag.digest]
    IN
    \/ UpdateManifestMetadata(
           tag, NewMetadata(Digest(tag.digest), RepoName, tagMetadata),
           stored # NoRecord)
    \/ /\ stored # NoRecord
       /\ UpdateManifestMetadata(tag, AppendMetadata(stored, tagMetadata), FALSE)
    \/ /\ stored # NoRecord
       /\ callFailed' = TRUE
       /\ ReturnErr(Err("json.Unmarshal", <<tag.name>>))
       /\ UNCHANGED <<srcMeta, tasks, idx, archivedTags>>

\* an iteration that takes a tag when its name matches or it is old enough
PurgeTagsIterEitherPredicate ==
    /\ pc = "tagsLoop"
    /\ idx <= Len(page)
    /\ LET tag == page[idx] IN
       IF /\ ~(filter # "" /\ MatchString(filter, tag.name))
          /\ ~Before(tagTime[tag.name], timeToCompare)
          THEN /\ idx' = idx + 1
               /\ UNCHANGED <<pc, result, chanClosed, srcMeta, tasks, callFailed,
                              archivedTags>>
       ELSE IF archive = ""
          THEN /\ LaunchUntag(tag.name)
               /\ UNCHANGED <<srcMeta, callFailed, archivedTags>>
       ELSE ArchiveRecordOf(tag)
    /\ UNCHANGED <<inputVars, srcTag, srcManifests, arcVars, timeToCompare,
                   page, hmVars, errorChannel, lists, tagDeletes, manDeletes,
                   printedTags, printedManifests, failures, sent>>

\* one iteration of "for _, tag := range tags"
PurgeTagsIter ==
    /\ pc = "tagsLoop"
    /\ idx <= Len(page)
    /\ LET tag == page[idx] IN
       IF filter # "" /\ ~MatchString(filter, tag.name)
          THEN /\ idx' = idx + 1
               /\ UNCHANGED <<pc, result, chanClosed, srcMeta, tasks, callFailed,
                              archivedTags>>
       ELSE IF ~tag.timeOk
          THEN /\ ReturnErr(Err("time.Parse", <<tag.name>>))
               /\ UNCHANGED <<idx, srcMeta, tasks, callFailed, archivedTags>>
       ELSE IF ~Before(tagTime[tag.name], timeToCompare)
          THEN /\ idx' = idx + 1
               /\ UNCHANGED <<pc, result, chanClosed, srcMeta, tasks, callFailed,
                              archivedTags>>
       ELSE IF archive = ""
          THEN /\ LaunchUntag(tag.name)
               /\ UNCHANGED <<srcMeta, callFailed, archivedTags>>
       ELSE ArchiveRecordOf(tag)
    /\ UNCHANGED <<inputVars, srcTag, srcManifests, arcVars, timeToCompare,
                   page, hmVars, errorChannel, lists, tagDeletes, manDeletes,
                   printedTags, printedManifests, failures, sent>>

\* the goroutine Untag: one AcrDeleteTag, then the error or the printed line
Untag(tag) ==
    /\ tag \in tasks
    /\ pc # "panic"
    /\ tasks' = tasks \ {tag}
    /\ tagDeletes' = [tagDeletes EXCEPT ![tag] = @ + 1]
    /\ \/ /\ srcTag[tag] # None
          /\ srcTag' = [srcTag EXCEPT ![tag] = None]
          /\ printedTags' = [printedTags EXCEPT ![tag] = @ + 1]
          /\ UNCHANGED <<pc, errorChannel, failures, callFailed, sent>>
       \/ /\ callFailed' = TRUE
          /\ SendErr(Err("AcrDeleteTag", <<tag>>))
          /\ UNCHANGED <<srcTag, printedTags>>
    /\ UNCHANGED <<inputVars, srcManifests, srcMeta, arcVars, timeToCompare,
                   page, idx, result, hmVars, chanClosed, lists, manDeletes,
                   printedManifests, archivedTags>>

\* a barrier that drains the errors and lists the next page all the same
PurgeTagsBarrierIgnoringErrors ==
    /\ pc = "tagsLoop"
    /\ idx > Len(page)
    /\ tasks = {}
    /\ errorChannel' = <<>>
    /\ IF page = <<>>
          THEN /\ pc' = "panic"
               /\ UNCHANGED <<page, idx, lists, callFailed, result, chanClosed>>
          ELSE ListTags(page[Len(page)].name)
    /\ UNCHANGED <<inputVars, srcVars, arcVars, timeToCompare, tasks, hmVars,
                   tagDeletes, manDeletes, printedTags, printedManifests,
                   failures, sent, archivedTags>>

\* a coordinator that does not wait for the page's goroutines
PurgeTagsBarrierWithoutWait ==
    /\ pc = "tagsLoop"
    /\ idx > Len(page)
    /\ IF Len(errorChannel) > 0
          THEN /\ errorChannel' = Tail(errorChannel)
               /\ ReturnErr(Head(errorChannel))
               /\ UNCHANGED <<page, idx, lists, callFailed>>
       ELSE IF page = <<>>
          THEN /\ pc' = "panic"
               /\ UNCHANGED <<page, idx, lists, callFailed, errorChannel,
                              result, chanClosed>>
       ELSE /\ ListTags(page[Len(page)].name)
            /\ UNCHANGED errorChannel
    /\ UNCHANGED <<inputVars, srcVars, arcVars, timeToCompare, tasks, hmVars,
                   tagDeletes, manDeletes, printedTags, printedManifests,
                   failures, sent, archivedTags>>

\* a coordinator that resumes after the first entry of the page
PurgeTagsBarrierFirstEntryCursor ==
    /\ pc = "tagsLoop"
    /\ idx > Len(page)
    /\ tasks = {}
    /\ IF Len(errorChannel) > 0
          THEN /\ errorChannel' = Tail(errorChannel)
               /\ ReturnErr(Head(errorChannel))
               /\ UNCHANGED <<page, idx, lists, callFailed>>
       ELSE IF page = <<>>
          THEN /\ pc' = "panic"
               /\ UNCHANGED <<page, idx, lists, callFailed, errorChannel,
                              result, chanClosed>>
       ELSE /\ ListTags(page[1].name)
            /\ UNCHANGED errorChannel
    /\ UNCHANGED <<inputVars, srcVars, arcVars, timeToCompare, tasks, hmVars,
                   tagDeletes, manDeletes, printedTags, printedManifests,
                   failures, sent, archivedTags>>

\* wg.Wait(), the drain of errorChannel, and the next list call
PurgeTagsBarrier ==
    /\ pc = "tagsLoop"
    /\ idx > Len(page)
    /\ tasks = {}
    /\ IF Len(errorChannel) > 0
          THEN /\ errorChannel' = Tail(errorChannel)
               /\ ReturnErr(Head(errorChannel))
               /\ UNCHANGED <<page, idx, lists, callFailed>>
       ELSE IF page = <<>>
          THEN /\ pc' = "panic"
               /\ UNCHANGED <<page, idx, lists, callFailed, errorChannel,
                              result, chanClosed>>
       ELSE /\ ListTags(page[Len(page)].name)
            /\ UNCHANGED errorChannel
    /\ UNCHANGED <<inputVars, srcVars, arcVars, timeToCompare, tasks, hmVars,
                   tagDeletes, manDeletes, printedTags, printedManifests,
                   failures, sent, archivedTags>>

(***************************************************************************)
(* PurgeDanglingManifests and HandleManifest.                              *)
(***************************************************************************)
\* a sweep that takes every listed manifest
IsDanglingAlways(manifest) == TRUE

\* "if manifest.Tags == nil": the entry was listed without tags
IsDangling(manifest) == manifest.tags = {}

\* where a HandleManifest goroutine starts: "if len(archive) > 0"
HandleManifestEntry == IF archive # "" THEN "getMeta" ELSE "delete"

\* api.AcrListManifests(ctx, loginURL, auth, repoName, "", last), the loop
\* condition, and the launch of one HandleManifest per dangling entry of
\* the page
ListManifests(last) ==
    LET ms == ManifestsAfter(last)
        entries == [i \in 1..Len(ms) |-> [digest |-> ms[i], tags |-> TagsOf(ms[i])]]
    IN
    \E listFails \in BOOLEAN :
    /\ lists' = Append(lists, ListRequest([kind |-> "manifests", last |-> last],
                                          listFails))
    /\ \/ /\ listFails
          /\ callFailed' = TRUE
          /\ ReturnErr([op |-> "AcrListManifests", item |-> last, page |-> Len(lists) + 1])
          /\ UNCHANGED <<page, hmPc>>
       \/ /\ ~listFails
          /\ ms = <<>>
          /\ page' = <<>>
          /\ \/ pc' = "done" /\ result' = Nil /\ chanClosed' = TRUE
             \/ pc' = "sweepWait" /\ chanClosed' = FALSE /\ UNCHANGED result
          /\ UNCHANGED <<hmPc, callFailed>>
       \/ /\ ~listFails
          /\ ms # <<>>
          /\ page' = entries
          /\ hmPc' = [m \in Manifests |->
                        IF \E i \in 1..Len(ms) : entries[i].digest = m /\ IsDangling(entries[i])
                           THEN HandleManifestEntry
                           ELSE hmPc[m]]
          /\ pc' = "sweepWait"
          /\ chanClosed' = FALSE
          /\ UNCHANGED <<result, callFailed>>

\* a RunE that goes on to the sweep when PurgeTags returned an error
PurgeDanglingBeginAfterError ==
    /\ \/ pc = "RunE" /\ dangling
       \/ pc = "PurgeDangling"
       \/ pc = "done" /\ result # Nil /\ ~ManifestListed(lists) /\ tasks = {}
    /\ errorChannel' = <<>>
    /\ ListManifests(<<>>)
    /\ UNCHANGED <<inputVars, srcVars, arcVars, timeToCompare, idx, tasks,
                   hmMeta, hmMounts, hmPushed, tagDeletes, manDeletes,
                   printedTags, printedManifests, failures, sent, archivedTags>>

\* RunE after PurgeTags returned nil, or with dangling set;
\* PurgeDanglingManifests up to the end of the first page's launch loop
PurgeDanglingBegin ==
    /\ \/ pc = "RunE" /\ dangling
       \/ pc = "PurgeDangling"
    /\ errorChannel' = <<>>
    /\ ListManifests(<<>>)
    /\ UNCHANGED <<inputVars, srcVars, arcVars, timeToCompare, idx, tasks,
                   hmMeta, hmMounts, hmPushed, tagDeletes, manDeletes,
                   printedTags, printedManifests, failures, sent, archivedTags>>

HandleManifestRunning == { m \in Manifests : hmPc[m] \notin {"none", "exit"} }

\* a sweep barrier that drains the errors and lists the next page all the same
PurgeDanglingBarrierIgnoringErrors ==
    /\ pc = "sweepWait"
    /\ HandleManifestRunning = {}
    /\ errorChannel' = <<>>
    /\ IF page = <<>>
          THEN /\ pc' = "panic"
               /\ UNCHANGED <<page, hmPc, lists, callFailed, result, chanClosed>>
          ELSE ListManifests(Digest(page[Len(page)].digest))
    /\ UNCHANGED <<inputVars, srcVars, arcVars, timeToCompare, idx, tasks,
                   hmMeta, hmMounts, hmPushed, tagDeletes, manDeletes,
                   printedTags, printedManifests, failures, sent, archivedTags>>

\* wg.Wait(), the drain of errorChannel, and the next list call
PurgeDanglingBarrier ==
    /\ pc = "sweepWait"
    /\ HandleManifestRunning = {}
    /\ IF Len(errorChannel) > 0
          THEN /\ errorChannel' = Tail(errorChannel)
               /\ ReturnErr(Head(errorChannel))
               /\ UNCHANGED <<page, hmPc, lists, callFailed>>
       ELSE IF page = <<>>
          THEN /\ pc' = "panic"
               /\ UNCHANGED <<page, hmPc, lists, callFailed, errorChannel,
                              result, chanClosed>>
       ELSE /\ ListManifests(Digest(page[Len(page)].digest))
            /\ UNCHANGED errorChannel
    /\ UNCHANGED <<inputVars, srcVars, arcVars, timeToCompare, idx, tasks,
                   hmMeta, hmMounts, hmPushed, tagDeletes, manDeletes,
                   printedTags, printedManifests, failures, sent, archivedTags>>

\* a HandleManifest that reports err and goes on to the delete
HandleManifestFallsThrough(m, op) ==
    /\ callFailed' = TRUE
    /\ SendErr(Err(op, Digest(m)))
    /\ hmPc' = [hmPc EXCEPT ![m] = "delete"]

\* a HandleManifest goroutine reports err and returns
HandleManifestFails(m, op) ==
    /\ callFailed' = TRUE
    /\ SendErr(Err(op, Digest(m)))
    /\ hmPc' = [hmPc EXCEPT ![m] = "exit"]

\* what a step of HandleManifest that touches neither repository leaves alone
hmFrame ==
    <<inputVars, srcVars, arcVars, timeToCompare, page, idx, result, tasks,
      chanClosed, lists, tagDeletes, manDeletes, printedTags, printedManifests,
      archivedTags>>

\* api.AcrGetManifestMetadata(..., *manifest.Digest, "acrarchiveinfo") and
\* the decode of what it returned; on an error of the call the manifest is
\* deleted without being moved
HandleManifestGetMetadata(m) ==
    /\ hmPc[m] = "getMeta"
    /\ pc # "panic"
    /\ \/ /\ hmPc' = [hmPc EXCEPT ![m] = "delete"]
          /\ callFailed' = (callFailed \/ srcMeta[m] # NoRecord)
          /\ UNCHANGED <<hmMeta, pc, errorChannel, failures, sent>>
       \/ /\ srcMeta[m] # NoRecord
          /\ hmMeta' = [hmMeta EXCEPT ![m] = srcMeta[m]]
          /\ hmPc' = [hmPc EXCEPT ![m] = "getManifest"]
          /\ UNCHANGED <<callFailed, pc, errorChannel, failures, sent>>
       \/ /\ srcMeta[m] # NoRecord
          /\ HandleManifestFails(m, "json.Unmarshal(metadata)")
          /\ UNCHANGED hmMeta
    /\ UNCHANGED <<hmFrame, hmMounts, hmPushed>>

\* api.GetManifest(..., repoName, *manifest.Digest) and the decode of the
\* body into a ManifestV2
HandleManifestGetManifest(m) ==
    /\ hmPc[m] = "getManifest"
    /\ pc # "panic"
    /\ \/ /\ m \in srcManifests
          /\ hmPc' = [hmPc EXCEPT ![m] = "mountConfig"]
          /\ UNCHANGED <<callFailed, pc, errorChannel, failures, sent>>
       \/ \E op \in {"GetManifest", "json.Unmarshal(manifest)"} : HandleManifestFails(m, op)
    /\ UNCHANGED <<hmFrame, hmMeta, hmMounts, hmPushed>>

\* api.AcrCrossReferenceLayer(..., archive, config digest, repoName)
HandleManifestMountConfig(m) ==
    /\ hmPc[m] = "mountConfig"
    /\ pc # "panic"
    /\ \/ /\ hmMounts' = [hmMounts EXCEPT ![m] = Append(@, ConfigBlob(m))]
          /\ hmPc' = [hmPc EXCEPT ![m] =
                        IF Len(Layers(m)) = 0 THEN "put" ELSE "mountLayers"]
          /\ UNCHANGED <<callFailed, pc, errorChannel, failures, sent>>
       \/ /\ HandleManifestFails(m, "AcrCrossReferenceLayer")
          /\ UNCHANGED hmMounts
    /\ UNCHANGED <<hmFrame, hmMeta, hmPushed>>

\* a HandleManifest that mounts the first layer only
HandleManifestMountFirstLayerOnly(m) ==
    /\ hmPc[m] = "mountLayers"
    /\ pc # "panic"
    /\ LET k == Len(hmMounts[m]) IN
       \/ /\ hmMounts' = [hmMounts EXCEPT ![m] = Append(@, Layers(m)[k])]
          /\ hmPc' = [hmPc EXCEPT ![m] = "put"]
          /\ UNCHANGED <<callFailed, pc, errorChannel, failures, sent>>
       \/ /\ HandleManifestFails(m, "AcrCrossReferenceLayer")
          /\ UNCHANGED hmMounts
    /\ UNCHANGED <<hmFrame, hmMeta, hmPushed>>

\* a HandleManifest that goes from the last mount to the delete
HandleManifestMountLayerThenDelete(m) ==
    /\ hmPc[m] = "mountLayers"
    /\ pc # "panic"
    /\ LET k == Len(hmMounts[m]) IN
       \/ /\ hmMounts' = [hmMounts EXCEPT ![m] = Append(@, Layers(m)[k])]
          /\ hmPc' = [hmPc EXCEPT ![m] =
                        IF k = Len(Layers(m)) THEN "delete" ELSE "mountLayers"]
          /\ UNCHANGED <<callFailed, pc, errorChannel, failures, sent>>
       \/ /\ HandleManifestFails(m, "AcrCrossReferenceLayer")
          /\ UNCHANGED hmMounts
    /\ UNCHANGED <<hmFrame, hmMeta, hmPushed>>

\* one iteration of "for _, layer := range *manifestV2.Layers"
HandleManifestMountLayer(m) ==
    /\ hmPc[m] = "mountLayers"
    /\ pc # "panic"
    /\ LET k == Len(hmMounts[m]) IN
       \/ /\ hmMounts' = [hmMounts EXCEPT ![m] = Append(@, Layers(m)[k])]
          /\ hmPc' = [hmPc EXCEPT ![m] =
                        IF k = Len(Layers(m)) THEN "put" ELSE "mountLayers"]
          /\ UNCHANGED <<callFailed, pc, errorChannel, failures, sent>>
       \/ /\ HandleManifestFails(m, "AcrCrossReferenceLayer")
          /\ UNCHANGED hmMounts
    /\ UNCHANGED <<hmFrame, hmMeta, hmPushed>>

\* a HandleManifest that pushes the manifest back into the source repository
HandleManifestPutToSource(m) ==
    /\ hmPc[m] = "put"
    /\ pc # "panic"
    /\ \/ /\ srcTag' = [srcTag EXCEPT ![NewTag] = m]
          /\ hmPushed' = [hmPushed EXCEPT ![m] = TRUE]
          /\ hmPc' = [hmPc EXCEPT ![m] = "updateTagMeta"]
          /\ UNCHANGED <<callFailed, pc, errorChannel, failures, sent>>
       \/ /\ HandleManifestFails(m, "PutManifest")
          /\ UNCHANGED <<srcTag, hmPushed>>
    /\ UNCHANGED <<inputVars, srcManifests, srcMeta, arcVars, timeToCompare,
                   page, idx, result, tasks, chanClosed, lists, tagDeletes,
                   manDeletes, printedTags, printedManifests, hmMeta, hmMounts,
                   archivedTags>>

\* api.PutManifest(..., archive, newTagName, *manifestString): the body is
\* stored as it was fetched, and the tag points at it
HandleManifestPut(m) ==
    /\ hmPc[m] = "put"
    /\ pc # "panic"
    /\ LET archiveTagName == ArchiveTagName(RepoName, Digest(m)) IN
       \/ /\ arcManifests' = arcManifests \cup {m}
          /\ arcTag' = [arcTag EXCEPT ![archiveTagName] = m]
          /\ hmPushed' = [hmPushed EXCEPT ![m] = TRUE]
          /\ hmPc' = [hmPc EXCEPT ![m] = "updateTagMeta"]
          /\ UNCHANGED <<callFailed, pc, errorChannel, failures, sent>>
       \/ /\ HandleManifestFails(m, "PutManifest")
          /\ UNCHANGED <<arcManifests, arcTag, hmPushed>>
    /\ UNCHANGED <<inputVars, srcVars, arcTagMeta, timeToCompare, page, idx,
                   result, tasks, chanClosed, lists, tagDeletes, manDeletes,
                   printedTags, printedManifests, hmMeta, hmMounts, archivedTags>>

\* api.AcrUpdateTagMetadata(..., archive, newTagName, "acrarchiveinfo",
\* *manifestMetadata)
HandleManifestUpdateTagMetadata(m) ==
    /\ hmPc[m] = "updateTagMeta"
    /\ pc # "panic"
    /\ LET archiveTagName == ArchiveTagName(RepoName, Digest(m)) IN
       \/ /\ arcTag[archiveTagName] # None
          /\ arcTagMeta' = [arcTagMeta EXCEPT ![archiveTagName] = hmMeta[m]]
          /\ hmPc' = [hmPc EXCEPT ![m] = "delete"]
          /\ UNCHANGED <<callFailed, pc, errorChannel, failures, sent>>
       \/ /\ HandleManifestFails(m, "AcrUpdateTagMetadata")
          /\ UNCHANGED arcTagMeta
    /\ UNCHANGED <<inputVars, srcVars, arcTag, arcManifests, timeToCompare,
                   page, idx, result, tasks, chanClosed, lists, tagDeletes,
                   manDeletes, printedTags, printedManifests, hmMeta, hmMounts,
                   hmPushed, archivedTags>>

\* api.DeleteManifest(..., repoName, *manifest.Digest), then the error or
\* the printed line
HandleManifestDelete(m) ==
    /\ hmPc[m] = "delete"
    /\ pc # "panic"
    /\ manDeletes' = [manDeletes EXCEPT ![m] = @ + 1]
    /\ \/ /\ m \in srcManifests
          /\ SrcAfterDeleteManifest(Digest(m))
          /\ printedManifests' = [printedManifests EXCEPT ![m] = @ + 1]
          /\ hmPc' = [hmPc EXCEPT ![m] = "exit"]
          /\ UNCHANGED <<callFailed, pc, errorChannel, failures, sent>>
       \/ /\ HandleManifestFails(m, "DeleteManifest")
          /\ UNCHANGED <<srcVars, printedManifests>>
    /\ UNCHANGED <<inputVars, arcVars, timeToCompare, page, idx, result,
                   tasks, chanClosed, lists, tagDeletes, printedTags, hmMeta,
                   hmMounts, hmPushed, archivedTags>>

(***************************************************************************)
(* The purge command.                                                      *)
(***************************************************************************)
Next ==
    \/ PurgeTagsBegin
    \/ PurgeTagsIter
    \/ \E tag \in TagIds : Untag(tag)
    \/ PurgeTagsBarrier
    \/ PurgeDanglingBegin
    \/ PurgeDanglingBarrier
    \/ \E m \in Manifests : HandleManifestGetMetadata(m)
    \/ \E m \in Manifests : HandleManifestGetManifest(m)
    \/ \E m \in Manifests : HandleManifestMountConfig(m)
    \/ \E m \in Manifests : HandleManifestMountLayer(m)
    \/ \E m \in Manifests : HandleManifestPut(m)
    \/ \E m \in Manifests : HandleManifestUpdateTagMetadata(m)
    \/ \E m \in Manifests : HandleManifestDelete(m)

Spec == Init /\ [][Next]_vars

(***************************************************************************)
(* acr unarchive (RunE of newUnarchiveCmd).  The command is another run of *)
(* the program: it starts when the purge run is over, on the registry the  *)
(* purge left behind.                                                      *)
(***************************************************************************)
\* what --reference may be given as: the digest of a manifest, a tag name,
\* and a string that starts with "sha256" and stops before the hash
References ==
    { Digest(m) : m \in OrigManifests } \cup
    { <<"l", "a", "t", "e", "s", "t">>, Sha256 }

UErr(op) == [op |-> op, item |-> reference, page |-> 0]

UnarchiveReturn(e) ==
    /\ upc' = "done"
    /\ uResult' = e

\* tagName := repoName + reference[len("sha256:"):len("sha256:")+8]
UnarchiveTagName == ArchiveTagName(RepoName, reference)

\* the manifest a tag of the archive repository points at
ArcTagAt(name) == IF name \in ArcNames THEN arcTag[name] ELSE None

\* DeleteManifest by digest in the archive repository: the manifest goes,
\* with the tags that point at it and their metadata
ArcAfterDeleteManifest(digest) ==
    LET gone == { m \in arcManifests : Digest(m) = digest } IN
    /\ arcManifests' = arcManifests \ gone
    /\ arcTag' = [n \in ArcNames |-> IF arcTag[n] \in gone THEN None ELSE arcTag[n]]
    /\ arcTagMeta' = [n \in ArcNames |->
                        IF arcTag[n] \in gone THEN NoRecord ELSE arcTagMeta[n]]

\* the flags are parsed, and RunE runs up to the first registry call: the
\* prefix check and the slice of the reference
UnarchiveBegin ==
    /\ upc = "idle"
    /\ pc \in {"done", "panic"}
    /\ tasks' = {}
    /\ \E ref \in References, name \in {0, NewTag} :
          /\ reference' = ref
          /\ newTagName' = name
          /\ IF ~HasPrefix(ref, SubSeq(Sha256, 1, 6))
                THEN /\ upc' = "done"
                     /\ uResult' = [op |-> "reference has to be a digest",
                                    item |-> ref, page |-> 0]
             ELSE IF Len(ref) < Len(Sha256) + 8
                THEN /\ upc' = "panic"
                     /\ UNCHANGED uResult
             ELSE /\ upc' = "getTagMeta"
                  /\ UNCHANGED uResult
    /\ UNCHANGED <<flagVars, srcVars, arcVars, pc, timeToCompare, page, idx,
                   result, hmVars, errorChannel, chanClosed, lists, tagDeletes,
                   manDeletes, printedTags, printedManifests, failures,
                   callFailed, sent, archivedTags, uMeta, uManifest, uMounts,
                   uPuts, uTagInfo>>

\* what a step of unarchive that only reads the registry leaves alone
uFrame ==
    <<flagVars, srcVars, arcVars, pc, timeToCompare, page, idx, result, tasks,
      hmVars, errorChannel, chanClosed, lists, tagDeletes, manDeletes,
      printedTags, printedManifests, failures, callFailed, sent, archivedTags,
      reference, newTagName>>

\* api.AcrGetTagMetadata(..., archive, tagName, "acrarchiveinfo") and
\* json.Unmarshal of the record
UnarchiveGetTagMetadata ==
    /\ upc = "getTagMeta"
    /\ \/ /\ ArcTagAt(UnarchiveTagName) # None
          /\ arcTagMeta[UnarchiveTagName] # NoRecord
          /\ uMeta' = arcTagMeta[UnarchiveTagName]
          /\ upc' = "getManifest"
          /\ UNCHANGED uResult
       \/ /\ UnarchiveReturn(UErr("AcrGetTagMetadata"))
          /\ UNCHANGED uMeta
       \/ /\ ArcTagAt(UnarchiveTagName) # None
          /\ arcTagMeta[UnarchiveTagName] # NoRecord
          /\ UnarchiveReturn(UErr("json.Unmarshal(metadata)"))
          /\ UNCHANGED uMeta
    /\ UNCHANGED <<uFrame, uManifest, uMounts, uPuts, uTagInfo>>

\* api.GetManifest(..., archive, tagName)
UnarchiveGetManifest ==
    /\ upc = "getManifest"
    /\ \/ /\ ArcTagAt(UnarchiveTagName) # None
          /\ uManifest' = DecodeManifestV2(ArcTagAt(UnarchiveTagName))
          /\ upc' = "mountConfig"
          /\ UNCHANGED uResult
       \/ /\ UnarchiveReturn(UErr("GetManifest"))
          /\ UNCHANGED uManifest
    /\ UNCHANGED <<uFrame, uMeta, uMounts, uPuts, uTagInfo>>

\* where RunE goes after the mounts: "if len(newTagName) > 0 ... else for
\* _, tag := range metadataObject.Tags"
UnarchiveAfterMounts ==
    IF newTagName = 0 /\ Len(uMeta.tags) = 0 THEN "getAttrs" ELSE "put"

\* api.AcrCrossReferenceLayer(..., repoName, config digest, archive)
UnarchiveMountConfig ==
    /\ upc = "mountConfig"
    /\ \/ /\ uMounts' = <<ConfigBlob(uManifest)>>
          /\ upc' = "mountLayers"
          /\ UNCHANGED uResult
       \/ /\ UnarchiveReturn(UErr("AcrCrossReferenceLayer"))
          /\ UNCHANGED uMounts
    /\ UNCHANGED <<uFrame, uMeta, uManifest, uPuts, uTagInfo>>

\* one iteration of "for _, layer := range *manifestV2.Layers"
UnarchiveMountLayer ==
    /\ upc = "mountLayers"
    /\ LET k == Len(uMounts) IN
       \/ /\ uMounts' = Append(uMounts, Layers(uManifest)[k])
          /\ upc' = IF k = Len(Layers(uManifest))
                       THEN UnarchiveAfterMounts ELSE "mountLayers"
          /\ UNCHANGED uResult
       \/ /\ UnarchiveReturn(UErr("AcrCrossReferenceLayer"))
          /\ UNCHANGED uMounts
    /\ UNCHANGED <<uFrame, uMeta, uManifest, uPuts, uTagInfo>>

\* an unarchive that goes on to the removal when a push failed
UnarchivePutUnchecked ==
    /\ upc = "put"
    /\ LET name == IF newTagName # 0 THEN newTagName
                   ELSE uMeta.tags[Len(uPuts) + 1].name
           last == newTagName # 0 \/ Len(uPuts) + 1 = Len(uMeta.tags)
       IN
       \/ /\ srcManifests' = srcManifests \cup {uManifest}
          /\ srcTag' = [srcTag EXCEPT ![name] = uManifest]
          /\ uPuts' = Append(uPuts, name)
          /\ upc' = IF last THEN "getAttrs" ELSE "put"
          /\ UNCHANGED uResult
       \/ /\ upc' = "getAttrs"
          /\ UNCHANGED <<srcManifests, srcTag, uPuts, uResult>>
    /\ UNCHANGED <<flagVars, srcMeta, arcVars, pc, timeToCompare, page, idx,
                   result, tasks, hmVars, errorChannel, chanClosed, lists,
                   tagDeletes, manDeletes, printedTags, printedManifests,
                   failures, callFailed, sent, archivedTags, reference,
                   newTagName, uMeta, uManifest, uMounts, uTagInfo>>

\* an unarchive that stops after the first push
UnarchivePutOnce ==
    /\ upc = "put"
    /\ LET name == IF newTagName # 0 THEN newTagName
                   ELSE uMeta.tags[Len(uPuts) + 1].name
       IN
       \/ /\ srcManifests' = srcManifests \cup {uManifest}
          /\ srcTag' = [srcTag EXCEPT ![name] = uManifest]
          /\ uPuts' = Append(uPuts, name)
          /\ upc' = "getAttrs"
          /\ UNCHANGED uResult
       \/ /\ UnarchiveReturn(UErr("PutManifest"))
          /\ UNCHANGED <<srcManifests, srcTag, uPuts>>
    /\ UNCHANGED <<flagVars, srcMeta, arcVars, pc, timeToCompare, page, idx,
                   result, tasks, hmVars, errorChannel, chanClosed, lists,
                   tagDeletes, manDeletes, printedTags, printedManifests,
                   failures, callFailed, sent, archivedTags, reference,
                   newTagName, uMeta, uManifest, uMounts, uTagInfo>>

\* api.PutManifest(..., repoName, name, *manifestV2) and the printed name:
\* the one push under newTagName, or one iteration of the loop over the tags
\* of the record
UnarchivePut ==
    /\ upc = "put"
    /\ LET name == IF newTagName # 0 THEN newTagName
                   ELSE uMeta.tags[Len(uPuts) + 1].name
           last == newTagName # 0 \/ Len(uPuts) + 1 = Len(uMeta.tags)
       IN
       \/ /\ srcManifests' = srcManifests \cup {uManifest}
          /\ srcTag' = [srcTag EXCEPT ![name] = uManifest]
          /\ uPuts' = Append(uPuts, name)
          /\ upc' = IF last THEN "getAttrs" ELSE "put"
          /\ UNCHANGED uResult
       \/ /\ UnarchiveReturn(UErr("PutManifest"))
          /\ UNCHANGED <<srcManifests, srcTag, uPuts>>
    /\ UNCHANGED <<flagVars, srcMeta, arcVars, pc, timeToCompare, page, idx,
                   result, tasks, hmVars, errorChannel, chanClosed, lists,
                   tagDeletes, manDeletes, printedTags, printedManifests,
                   failures, callFailed, sent, archivedTags, reference,
                   newTagName, uMeta, uManifest, uMounts, uTagInfo>>

\* api.AcrGetTagAttributes(..., archive, tagName)
UnarchiveGetTagAttributes ==
    /\ upc = "getAttrs"
    /\ \/ /\ ArcTagAt(UnarchiveTagName) # None
          /\ uTagInfo' = Digest(ArcTagAt(UnarchiveTagName))
          /\ upc' = "delete"
          /\ UNCHANGED uResult
       \/ /\ UnarchiveReturn(UErr("AcrGetTagAttributes"))
          /\ UNCHANGED uTagInfo
    /\ UNCHANGED <<uFrame, uMeta, uManifest, uMounts, uPuts>>

\* api.DeleteManifest(..., archive, *(*tagInfo.Tag).Digest) and "return nil"
UnarchiveDeleteManifest ==
    /\ upc = "delete"
    /\ \/ /\ \E m \in arcManifests : Digest(m) = uTagInfo
          /\ ArcAfterDeleteManifest(uTagInfo)
          /\ UnarchiveReturn(Nil)
       \/ /\ UnarchiveReturn(UErr("DeleteManifest"))
          /\ UNCHANGED arcVars
    /\ UNCHANGED <<flagVars, srcVars, pc, timeToCompare, page, idx, result,
                   tasks, hmVars, errorChannel, chanClosed, lists, tagDeletes,
                   manDeletes, printedTags, printedManifests, failures,
                   callFailed, sent, archivedTags, reference, newTagName,
                   uMeta, uManifest, uMounts, uPuts, uTagInfo>>

\* a purge in archive mode of every tag, followed by an unarchive; the first
\* tag points at the first manifest and the last tag at the last one
InitU ==
    /\ Init
    /\ archive = ArchiveRepo
    /\ ~dangling
    /\ filter = ""
    /\ ago = [err |-> FALSE, dur |-> 0]
    /\ srcTag[1] = Orig(1)
    /\ srcTag[NumTags] = Orig(NumDigests)

NextU ==
    \/ Next
    \/ UnarchiveBegin
    \/ UnarchiveGetTagMetadata
    \/ UnarchiveGetManifest
    \/ UnarchiveMountConfig
    \/ UnarchiveMountLayer
    \/ UnarchivePut
    \/ UnarchiveGetTagAttributes
    \/ UnarchiveDeleteManifest

SpecU == InitU /\ [][NextU]_vars

(***************************************************************************)
(* ParseDuration by itself: the first statement of PurgeTags, run on every *)
(* --ago string of up to MaxAgoLen characters.                             *)
(***************************************************************************)
InitP ==
    /\ dangling = FALSE
    /\ archive = ""
    /\ filter = ""
    /\ agoString \in AgoInputs
    /\ ago = NotParsed
    /\ InitRegistry
    /\ \A t \in TagIds : srcTag[t] = Orig(1)

\* agoDuration, err := ParseDuration(ago)
ParseDurationCall ==
    /\ pc = "RunE"
    /\ ago = NotParsed
    /\ ago' = ParseDuration(agoString)
    /\ UNCHANGED <<dangling, archive, filter, agoString, tagTime, srcVars,
                   arcVars, pc, timeToCompare, page, idx, result, tasks, hmVars,
                   errorChannel, chanClosed, lists, tagDeletes, manDeletes,
                   printedTags, printedManifests, failures, callFailed, sent,
                   archivedTags, unarchiveVars>>

NextP == ParseDurationCall

SpecP == InitP /\ [][NextP]_vars

(***************************************************************************)
(* Properties of a purge run.                                              *)
(***************************************************************************)
\* the cutoff of the run: now + ParseDuration(ago)
Cutoff == Now + ago.dur

\* the tags the run is to delete: (no filter or the name matches) and
\* lastUpdateTime strictly before the cutoff
Eligible(t) ==
    /\ filter = "" \/ MatchString(filter, t)
    /\ tagTime[t] < Cutoff

IsPrefix(s, t) == Len(s) <= Len(t) /\ SubSeq(t, 1, Len(s)) = s

RecordNames(metadataObject) ==
    [i \in 1..Len(metadataObject.tags) |-> metadataObject.tags[i].name]

\* C1: a tag whose lastUpdateTime is at or after the cutoff never has a
\* delete issued for it and stays in the repository, whatever the filter and
\* with or without an archive repository; this includes the tag whose
\* lastUpdateTime equals the cutoff.
C1_TagAtOrAfterCutoffKept ==
    \A t \in TagIds :
        tagTime[t] >= Cutoff => tagDeletes[t] = 0 /\ srcTag[t] # None

C1_Witness ==
    /\ pc = "done"
    /\ result = Nil
    /\ archive # ""
    /\ filter # ""
    /\ \E t, u \in TagIds :
          /\ tagTime[t] = Cutoff
          /\ MatchString(filter, t)
          /\ srcTag[t] # None
          /\ tagDeletes[u] = 1

\* the steps of the archive move that HandleManifest reports as errors
ArchiveStepOps ==
    { "json.Unmarshal(metadata)", "GetManifest", "json.Unmarshal(manifest)",
      "AcrCrossReferenceLayer", "PutManifest", "AcrUpdateTagMetadata" }

\* C2: when a step of the archive move of a manifest fails (record decode,
\* manifest fetch, manifest decode, a mount, the push, the attach of the
\* record), no DeleteManifest is issued for that manifest, it stays in the
\* source repository, and the error was sent on the error channel.
C2_FailedArchiveStepBlocksDelete ==
    \A e \in failures :
        e.op \in ArchiveStepOps =>
            /\ e \in sent
            /\ \A m \in Manifests :
                  Digest(m) = e.item => manDeletes[m] = 0 /\ m \in srcManifests

C2_Witness ==
    /\ pc = "done"
    /\ result \in failures
    /\ result.op = "AcrUpdateTagMetadata"
    /\ \E m \in Manifests :
          Digest(m) = result.item /\ hmPushed[m] /\ manDeletes[m] = 0

TagFailures == { e \in failures : e.op = "AcrDeleteTag" }

C5_PagesSerialized ==
    [][lists' # lists =>
          tasks = {} /\ HandleManifestRunning = {} /\ errorChannel = <<>>]_vars

C5_Witness ==
    /\ Len(lists) >= 2
    /\ tasks # {}
    /\ \E t \in TagIds : t \notin tasks /\ tagDeletes[t] = 1

\* the tag purge of the run is over
TagPurgeOver == ~dangling /\ pc \in {"PurgeDangling", "sweepWait", "done", "panic"}

\* C6: no tag ever gets two deletes, and when the tag purge of a run with a
\* valid age and filter is over and no registry call has failed, every
\* eligible tag has exactly one delete issued and no other tag has any.
C6_EligibleDeletedExactlyOnce ==
    /\ \A t \in TagNames : tagDeletes[t] <= 1
    /\ (TagPurgeOver /\ ~callFailed /\ ~ago.err /\ ~CompileFails(filter)) =>
          \A t \in TagIds : tagDeletes[t] = (IF Eligible(t) THEN 1 ELSE 0)

C6_Witness ==
    /\ pc = "done"
    /\ result = Nil
    /\ ~callFailed
    /\ Len(lists) >= 3
    /\ tagDeletes[1] = 1
    /\ tagDeletes[NumTags] = 1

\* C7 as stated: when the ArchiveRecord entries of two tags of one manifest
\* have been persisted, the record on the manifest lists those two tags in
\* that order.
C7_TwoTagsTwoEntries ==
    \A m \in srcManifests :
        Len(archivedTags[m]) = 2 =>
            srcMeta[m] # NoRecord /\ RecordNames(srcMeta[m]) = archivedTags[m]

\* C8 as stated: a persisted ArchiveRecord is only ever extended.
C8_AppendOnly ==
    [][\A m \in Manifests :
          (srcMeta[m] # NoRecord /\ m \in srcManifests') =>
              IsPrefix(srcMeta[m].tags, srcMeta'[m].tags)]_vars

\* C10: a manifest that has a tag is never handed to HandleManifest, deleted
\* or moved by the sweep, and every HandleManifest in flight is for an entry
\* of the current page that was listed without tags.
C10_SweepTakesOnlyUntagged ==
    /\ \A m \in Manifests :
          TagsOf(m) # {} =>
              hmPc[m] = "none" /\ manDeletes[m] = 0 /\ ~hmPushed[m]
    /\ \A m \in HandleManifestRunning :
          \E i \in 1..Len(page) : page[i].digest = m /\ page[i].tags = {}

C10_Witness ==
    /\ pc = "done"
    /\ result = Nil
    /\ \E m \in srcManifests, t \in TagIds :
          /\ archivedTags[m] = <<t>>
          /\ srcTag[t] = None
          /\ TagsOf(m) # {}
          /\ hmPc[m] = "none"
    /\ \E n \in Manifests : manDeletes[n] = 1 /\ hmPushed[n]

\* C9 as stated: after a successful Unarchive of a digest without a new tag
\* name, every tag of the archived record points in the source repository at
\* a manifest with the body that was archived (the body whose digest is the
\* reference), and the synthesized archive tag is gone.
C9_RoundTrip ==
    (upc = "done" /\ uResult = Nil /\ newTagName = 0 /\ uMeta.digest = reference) =>
        /\ \A i \in 1..Len(uMeta.tags) :
              /\ srcTag[uMeta.tags[i].name] # None
              /\ Digest(srcTag[uMeta.tags[i].name]) = reference
        /\ ArcTagAt(UnarchiveTagName) = None

\* C11 as stated: Unarchive ends by removing only the synthesized tag: after
\* a successful Unarchive the manifest that tag pointed at is still in the
\* archive repository (no delete by digest was issued there).
C11_ArchiveManifestSurvives ==
    (upc = "done" /\ uResult = Nil) =>
        \E m \in arcManifests : Digest(m) = uTagInfo

\* a reference is digest-shaped: "sha256:" and at least 8 hash characters
DigestShaped(ref) == HasPrefix(ref, Sha256) /\ Len(ref) >= Len(Sha256) + 8

\* C12 as stated: a started Unarchive whose reference is not digest-shaped
\* has returned the validation error (and so has issued no registry call).
C12_ValidationError ==
    (upc # "idle" /\ ~DigestShaped(reference)) =>
        /\ upc = "done"
        /\ uResult.op = "reference has to be a digest"
        /\ uMeta = NoRecord

\* C13 as stated: a page without entries ends the enumeration; the
\* coordinator never fails on reading the last entry of an empty page.
C13_EmptyPageEndsEnumeration ==
    ~(pc = "panic" /\ page = <<>> /\ lists # <<>>)

ListOps == {"AcrListTags", "AcrListManifests"}

ListFailed(history) == \E i \in 1..Len(history) : history[i].err

\* C14: when a list call returns an error the run returns that error at
\* once: it is the last list request, the run is over with the error of that
\* request as its result, no task is in flight, and from then on no list
\* request and no delete is issued.
C14_ListErrorEndsRun ==
    [][ListFailed(lists') =>
          /\ lists'[Len(lists')].err
          /\ pc' = "done"
          /\ result'.op \in ListOps
          /\ result'.page = Len(lists')
          /\ result'.item = lists'[Len(lists')].last
          /\ tasks' = {}
          /\ \A m \in Manifests : hmPc'[m] \in {"none", "exit"}
          /\ ListFailed(lists) =>
                lists' = lists /\ tagDeletes' = tagDeletes /\ manDeletes' = manDeletes
       ]_vars

C14_Witness ==
    /\ pc = "done"
    /\ result.op = "AcrListTags"
    /\ Len(lists) = 2
    /\ lists[2].err
    /\ \E t, u \in TagIds :
          /\ tagDeletes[t] = 1
          /\ srcTag[u] # None /\ Eligible(u) /\ tagDeletes[u] = 0

\* C15: in a run of PurgeTags with an age that does not parse or a filter
\* that does not compile, the run is over with that error and has issued no
\* registry call: no list request, no metadata update, no tag delete, no
\* manifest delete, and no sweep task was started.
C15_ValidationBeforeRegistry ==
    (~dangling /\ (ago.err \/ CompileFails(filter)) /\ pc # "RunE") =>
        /\ pc = "done"
        /\ result.op = (IF ago.err THEN "ParseDuration" ELSE "regexp.Compile")
        /\ lists = <<>>
        /\ ~callFailed
        /\ tasks = {}
        /\ \A t \in TagIds : tagDeletes[t] = 0 /\ srcTag[t] # None
        /\ \A m \in Manifests :
              manDeletes[m] = 0 /\ hmPc[m] = "none" /\ srcMeta[m] = NoRecord

C15_Witness ==
    /\ pc = "done"
    /\ result.op = "regexp.Compile"
    /\ ~ago.err
    /\ archive # ""
    /\ lists = <<>>

\* the strings the contract of ParseDuration accepts: an integer, "d" and
\* optionally a duration, or a bare duration
IsInteger(s) ==
    LET n == ScanInt(s) IN n.ok /\ n.rest = <<>>

IsBareDuration(s) == ~TimeParseDuration(s).err

IsDayForm(s) ==
    \E k \in 1..Len(s) :
        /\ s[k] = "d"
        /\ IsInteger(SubSeq(s, 1, k - 1))
        /\ k = Len(s) \/ IsBareDuration(SubSeq(s, k + 1, Len(s)))

WellFormedAge(s) == IsDayForm(s) \/ IsBareDuration(s)

\* C16: ParseDuration gives -24h for "1d", -84h for "3d12h", -12h for "12h"
\* and an error for "abc"; for an unsigned day count followed by "d" and
\* nothing or an unsigned duration it gives minus (days x 24h + duration),
\* and for an unsigned duration alone minus that duration.
C16_ParseDurationValues ==
    ago # NotParsed =>
        /\ agoString = <<"1", "d">> => ago = [err |-> FALSE, dur |-> -24]
        /\ agoString = <<"2", "d">> => ago = [err |-> FALSE, dur |-> -48]
        /\ agoString = <<"3", "d", "1", "2", "h">> =>
              ago = [err |-> FALSE, dur |-> -84]
        /\ agoString = <<"1", "2", "h">> => ago = [err |-> FALSE, dur |-> -12]
        /\ agoString = <<"a", "b", "c">> => ago.err
        /\ \A k \in 2..Len(agoString) :
              LET days == SubSeq(agoString, 1, k - 1)
                  rest == SubSeq(agoString, k + 1, Len(agoString))
              IN (/\ agoString[k] = "d"
                  /\ DigitRun(days) = k - 1
                  /\ rest = <<>> \/ (DigitRun(rest) > 0 /\ IsBareDuration(rest)))
                 => ago = [err |-> FALSE,
                           dur |-> -(24 * DecimalValue(days)
                                     + TimeParseDuration(rest).dur)]
        /\ (DigitRun(agoString) > 0 /\ IsBareDuration(agoString)) =>
              ago = [err |-> FALSE, dur |-> -TimeParseDuration(agoString).dur]

C16_Witness ==
    /\ agoString = <<"3", "d", "1", "2", "h">>
    /\ ago = [err |-> FALSE, dur |-> -84]

\* C17 as stated: every offset ParseDuration returns without an error is
\* strictly negative.
C17_OffsetNegative ==
    (ago # NotParsed /\ ~ago.err) => ago.dur < 0

\* C18 as stated: ParseDuration returns an error for every string that is
\* neither an integer, "d" and an optional duration nor a bare duration.
C18_MalformedRejected ==
    (ago # NotParsed /\ ~WellFormedAge(agoString)) => ago.err

\* an Untag was launched for the tag
Launched(t) == t \in tasks \/ tagDeletes[t] > 0

\* C19: the tags a page selects are exactly those that match the filter (or
\* any tag when there is no filter) and are older than the cutoff: an Untag
\* is only ever launched for such a tag, and every entry of the current page
\* the loop has passed was launched if and only if it is such a tag.
C19_SelectionIsConjunction ==
    /\ \A t \in TagIds : Launched(t) => Eligible(t)
    /\ pc = "tagsLoop" =>
          \A i \in 1..(idx - 1) :
              Launched(page[i].name) <=> Eligible(page[i].name)

C19_Witness ==
    /\ filter # ""
    /\ pc = "tagsLoop"
    /\ idx > Len(page)
    /\ Len(lists) >= 2
    /\ \E t, u, v \in TagIds :
          /\ Launched(t)
          /\ MatchString(filter, u) /\ tagTime[u] >= Cutoff /\ ~Launched(u)
          /\ ~MatchString(filter, v) /\ tagTime[v] < Cutoff /\ ~Launched(v)

\* the name of the archive repository as a string of characters
ArchiveRepoName == <<"a", "r", "c", "h", "i", "v", "e">>

\* a repository name followed by characters 8 to 15 of the digest: the first
\* eight characters after "sha256:"
PrefixedName(repo, digest) == repo \o SubSeq(digest, 8, 15)

\* the archive tag of that name points at the manifest
TagPointsAt(tagOf, name, m) == name \in DOMAIN tagOf /\ tagOf[name] = m

\* C20 as stated: a HandleManifest that pushes a manifest to the archive
\* pushes it under the archive repository's name followed by the first eight
\* hash characters of its digest.
C20_ArchiveRepoPrefix ==
    [][\A m \in Manifests :
          (hmPushed'[m] /\ ~hmPushed[m]) =>
              TagPointsAt(arcTag', PrefixedName(ArchiveRepoName, Digest(m)), m)
      ]_vars

\* C20 amended: the synthesized tag is the source repository's name followed
\* by the first eight hash characters of the digest: HandleManifest pushes
\* the manifest under that name, and Unarchive reads the record and the
\* manifest of the tag of that name for its reference.
C20_SourceRepoPrefix ==
    [][/\ \A m \in Manifests :
             (hmPushed'[m] /\ ~hmPushed[m]) =>
                 TagPointsAt(arcTag', PrefixedName(RepoName, Digest(m)), m)
       /\ (upc = "getTagMeta" /\ upc' = "getManifest") =>
             /\ PrefixedName(RepoName, reference) \in DOMAIN arcTagMeta
             /\ uMeta' = arcTagMeta[PrefixedName(RepoName, reference)]
       /\ (upc = "getManifest" /\ upc' = "mountConfig") =>
             /\ PrefixedName(RepoName, reference) \in DOMAIN arcTag
             /\ uManifest' = DecodeManifestV2(arcTag[PrefixedName(RepoName, reference)])
      ]_vars

C20_Witness ==
    /\ upc = "mountConfig"
    /\ uMeta.digest = reference
    /\ \E m \in Manifests :
          /\ hmPushed[m]
          /\ Digest(m) = reference
          /\ uManifest = DecodeManifestV2(m)
          /\ TagPointsAt(arcTag, PrefixedName(RepoName, Digest(m)), m)

(***************************************************************************)
(* Properties of unarchive and of the run as a whole.                      *)
(***************************************************************************)
\* the names Unarchive is to push under: the new tag name alone when one is
\* given, else the tag names of the record in list order
PushTargets ==
    IF newTagName # 0 THEN <<newTagName>> ELSE RecordNames(uMeta)

\* the pushes are over: RunE is at or past AcrGetTagAttributes
UnarchivePushesOver ==
    upc \in {"getAttrs", "delete"} \/ (upc = "done" /\ uResult = Nil)

\* C21: Unarchive pushes the manifest under the new tag name only (one push)
\* when one is given, and otherwise under every tag name of the record, one
\* push per entry in list order: each push is the next name of that list and
\* points the name at the fetched manifest, and when the pushes are over the
\* pushed names are exactly that list.
C21_PushesNewTagOrRecordTags ==
    [][/\ uPuts' # uPuts =>
             /\ Len(uPuts) < Len(PushTargets)
             /\ uPuts' = Append(uPuts, PushTargets[Len(uPuts) + 1])
             /\ srcTag'[PushTargets[Len(uPuts) + 1]] = uManifest
       /\ UnarchivePushesOver' => uPuts' = PushTargets'
      ]_vars

C21_Witness ==
    /\ upc = "done"
    /\ uResult = Nil
    /\ newTagName = 0
    /\ Len(uMeta.tags) = 2
    /\ uPuts = RecordNames(uMeta)
    /\ uPuts[1] # uPuts[2]

\* C22: a purge run never creates or re-points a tag of the source
\* repository: every step leaves each source tag as it was or removes it and
\* adds no manifest to the source, and every push of a manifest writes the
\* archive repository and leaves the source repository as it is.
C22_PurgeOnlyDeletesSourceTags ==
    [][/\ \A t \in TagNames : srcTag'[t] \in {srcTag[t], None}
       /\ srcManifests' \subseteq srcManifests
       /\ \A m \in Manifests :
             (hmPushed'[m] /\ ~hmPushed[m]) =>
                 /\ archive # ""
                 /\ m \in arcManifests'
                 /\ \E n \in ArcNames : arcTag'[n] = m /\ arcTag[n] # m
                 /\ srcTag' = srcTag /\ srcManifests' = srcManifests
      ]_vars

C22_Witness ==
    /\ pc = "done"
    /\ result = Nil
    /\ archive # ""
    /\ \E m \in Manifests : hmPushed[m] /\ m \notin srcManifests
    /\ \E n \in Manifests : manDeletes[n] = 1 /\ ~hmPushed[n]
    /\ \E t, u \in TagIds : tagDeletes[t] = 1 /\ srcTag[t] = None /\ srcTag[u] # None
    /\ srcTag[NewTag] = None

\* C23 as stated: when PurgeTags or PurgeDanglingManifests has returned,
\* every task it launched has finished, and no task ever sends on the error
\* channel after it was closed.
C23_TasksFinishedAtReturn ==
    /\ pc = "done" => tasks = {} /\ HandleManifestRunning = {}
    /\ ~(pc = "panic" /\ chanClosed)

\* the tasks of the run that have not returned yet
InFlight == Cardinality(tasks) + Cardinality(HandleManifestRunning)

\* C24: the page barrier never deadlocks: a page has at most as many entries
\* as the error channel has room for, and the errors in the channel together
\* with the tasks still in flight never exceed its capacity, so a task that
\* fails always finds room for its error, even when every task of the page
\* fails; the barrier is then passed with every task finished.
C24_SendNeverBlocks ==
    /\ Len(page) <= ErrorChannelCap
    /\ Len(errorChannel) + InFlight <= ErrorChannelCap
    /\ (pc = "done" /\ result \in sent) => InFlight = 0

C24_Witness ==
    /\ pc = "done"
    /\ result.op = "AcrDeleteTag"
    /\ Len(page) = MaxEntries
    /\ \A i \in 1..Len(page) : Err("AcrDeleteTag", <<page[i].name>>) \in sent
    /\ Len(errorChannel) = MaxEntries - 1
    /\ InFlight = 0

\* the errors of building, decoding and persisting an ArchiveRecord
RecordOps == {"json.Unmarshal", "AcrUpdateManifestMetadata"}

\* the last entry of a record
LastEntry(metadataObject) == metadataObject.tags[Len(metadataObject.tags)]

\* C25: in archive mode the Untag of a tag is launched only in a step that
\* has persisted, on the manifest the tag points at, a record whose newest
\* entry is {the tag's name, the archive time}; when decoding or persisting
\* the record of a tag fails, the run is over with that error and the tag's
\* Untag was not launched.
C25_DeleteAfterRecordPersisted ==
    [][/\ archive # "" =>
             \A t \in tasks' \ tasks :
                 /\ srcTag[t] # None
                 /\ srcMeta'[srcTag[t]] # NoRecord
                 /\ srcMeta'[srcTag[t]].digest = Digest(srcTag[t])
                 /\ LastEntry(srcMeta'[srcTag[t]]) = AcrTags(t, timeToCompare)
       /\ \A t \in TagIds :
             (result'.op \in RecordOps /\ result'.item = <<t>>) =>
                 /\ pc' \in {"done", "panic"}
                 /\ t \notin tasks'
                 /\ tagDeletes'[t] = 0
      ]_vars

C25_Witness ==
    /\ archive # ""
    /\ pc = "done"
    /\ result.op = "AcrUpdateManifestMetadata"
    /\ result.page = 2
    /\ \E t, u \in TagIds :
          /\ tagDeletes[t] = 1
          /\ srcTag[t] = None
          /\ result.item = <<u>>
          /\ tagDeletes[u] = 0
          /\ srcTag[u] # None
          /\ srcMeta[srcTag[u]] = NoRecord

\* the errors PurgeTags returns
TagPurgeOps ==
    { "ParseDuration", "regexp.Compile", "AcrListTags", "time.Parse",
      "AcrDeleteTag" } \cup RecordOps

\* C26: the first manifest list request is issued only after the tag purge
\* has returned without error (or at once, with --dangling), when no Untag
\* is in flight and no error is pending; as long as no manifest was listed no
\* manifest is handled, moved or deleted; and a run whose tag purge returned
\* an error never lists a manifest.
C26_SweepAfterTagPurge ==
    [][/\ (ManifestListed(lists') /\ ~ManifestListed(lists)) =>
             /\ IF dangling THEN pc = "RunE" /\ lists = <<>>
                            ELSE pc = "PurgeDangling" /\ lists # <<>>
             /\ result = Pending
             /\ tasks = {}
             /\ errorChannel = <<>>
             /\ \A t \in TagIds : tagDeletes[t] = printedTags[t]
       /\ ~ManifestListed(lists') =>
             \A m \in Manifests :
                 manDeletes'[m] = 0 /\ ~hmPushed'[m] /\ hmPc'[m] = "none"
       /\ result'.op \in TagPurgeOps => ~ManifestListed(lists')
      ]_vars

C26_Witness ==
    /\ ~dangling
    /\ pc = "done"
    /\ result.op = "AcrDeleteTag"
    /\ ~ManifestListed(lists)
    /\ \E m \in srcManifests :
          /\ TagsOf(m) = {}
          /\ \E t \in TagIds : tagDeletes[t] = 1 /\ page[1].name = t /\ page[1].digest = m
          /\ manDeletes[m] = 0

\* the run has returned nil and every registry call of it succeeded
RunSucceeded == pc = "done" /\ result = Nil /\ ~callFailed

\* C27: when a run without --dangling has returned nil and no registry call
\* failed, every manifest left without a tag (the tag purge of the run
\* deleted its tags, or it had none) was disposed of by the sweep of the
\* run: it got one delete and is gone from the source repository, and in
\* archive mode a manifest whose tags the run archived was moved.
C27_UntaggedByRunIsSwept ==
    (~dangling /\ RunSucceeded) =>
        \A m \in OrigManifests :
            TagsOf(m) = {} =>
                /\ m \notin srcManifests
                /\ manDeletes[m] = 1
                /\ printedManifests[m] = 1
                /\ (archive # "" /\ archivedTags[m] # <<>>) =>
                      hmPushed[m] /\ m \in arcManifests

C27_Witness ==
    /\ ~dangling
    /\ RunSucceeded
    /\ archive # ""
    /\ \E m, n \in OrigManifests :
          /\ Len(archivedTags[m]) = 2
          /\ \A i \in 1..2 : tagDeletes[archivedTags[m][i]] = 1
          /\ hmPushed[m]
          /\ m \notin srcManifests
          /\ TagsOf(n) # {}

\* C28 as stated: archiving never overwrites an archived manifest: every
\* manifest a purge run pushed to the archive is still what its synthesized
\* tag points at.
C28_ArchivedStaysRetrievable ==
    \A m \in Manifests :
        hmPushed[m] => arcTag[ArchiveTagName(RepoName, Digest(m))] = m

\* the blobs of a manifest in the order HandleManifest mounts them
MountOrder(m) == <<ConfigBlob(m)>> \o Layers(m)

\* a mount of the manifest's move has failed
MountFailed(m) ==
    \E e \in failures : e.op = "AcrCrossReferenceLayer" /\ e.item = Digest(m)

\* C29: in the archive move of a manifest the blobs are mounted config first
\* and then the layers in manifest order, and the manifest is pushed only
\* when all of them are mounted; after the first mount failure the task is
\* over: no further mount, no push, no attach of the record and no source
\* delete is issued for the manifest.
C29_PushAfterAllMounts ==
    [][\A m \in Manifests :
          /\ IsPrefix(hmMounts'[m], MountOrder(m))
          /\ Len(hmMounts'[m]) <= Len(hmMounts[m]) + 1
          /\ (hmPushed'[m] \/ hmPc'[m] \in {"put", "updateTagMeta"}) =>
                hmMounts'[m] = MountOrder(m)
          /\ MountFailed(m)' =>
                /\ hmPc'[m] = "exit"
                /\ Len(hmMounts'[m]) < Len(MountOrder(m))
                /\ ~hmPushed'[m]
                /\ manDeletes'[m] = 0
                /\ m \in srcManifests'
                /\ \A n \in ArcNames : arcTag'[n] # m
                /\ MountFailed(m) => hmMounts'[m] = hmMounts[m]
      ]_vars

C29_Witness ==
    \E m, n \in Manifests :
        /\ hmPushed[m]
        /\ Len(hmMounts[m]) = 3
        /\ hmMounts[m] = MountOrder(m)
        /\ MountFailed(n)
        /\ Len(hmMounts[n]) = 2
        /\ pc = "done"
        /\ result.op = "AcrCrossReferenceLayer"

\* the errors Unarchive returns before it removes the archive-side copy
UnarchiveEarlyOps ==
    { "AcrGetTagMetadata", "json.Unmarshal(metadata)", "GetManifest",
      "AcrCrossReferenceLayer", "PutManifest", "AcrGetTagAttributes" }

\* C30: Unarchive changes the archive repository in one step only, the
\* DeleteManifest it issues after every push has succeeded; a step that
\* returns an error of the record fetch, the record decode, the manifest
\* fetch, a mount or a push leaves the archive repository as it is, with the
\* tag and the manifest in it; and a push into the destination happens only
\* with the config and all layers mounted.
C30_RemoveAfterAllPushes ==
    [][/\ (upc # "idle" /\ arcVars' # arcVars) =>
             /\ upc = "delete"
             /\ uPuts = PushTargets
             /\ \A i \in 1..Len(uPuts) : srcTag[uPuts[i]] = uManifest
             /\ uResult' = Nil
       /\ (uResult' # uResult /\ uResult'.op \in UnarchiveEarlyOps) =>
             /\ upc' = "done"
             /\ arcVars' = arcVars
             /\ uMeta' # NoRecord =>
                   /\ ArcTagAt(UnarchiveTagName)' # None
                   /\ ArcTagAt(UnarchiveTagName)' \in arcManifests'
       /\ uPuts' # uPuts => uMounts = MountOrder(uManifest)
      ]_vars

C30_Witness ==
    /\ upc = "done"
    /\ uResult.op = "PutManifest"
    /\ newTagName = 0
    /\ Len(uMeta.tags) = 2
    /\ Len(uPuts) = 1
    /\ Len(uMounts) = 3
    /\ ArcTagAt(UnarchiveTagName) # None
    /\ ArcTagAt(UnarchiveTagName) \in arcManifests
    /\ arcTagMeta[UnarchiveTagName] = uMeta

\* the errors a HandleManifest task reports
HandleManifestOps == ArchiveStepOps \cup {"DeleteManifest"}

ManifestFailures == { e \in failures : e.op \in HandleManifestOps }

\* C31: the sweep is fail-fast: once a HandleManifest task of a page has
\* reported an error no further list request is issued, and the run returns a
\* non-nil error of that page; an error of a task is returned only after
\* every task of the page has finished and is one of the page's failures;
\* every manifest whose delete succeeded is reported once and stays gone.
C31_SweepFailFastPerPage ==
    /\ \A e \in ManifestFailures :
          /\ Len(lists) = e.page
          /\ pc = "done" => result # Nil /\ result.page = e.page
    /\ (pc = "done" /\ result.op \in HandleManifestOps) =>
          result \in ManifestFailures /\ HandleManifestRunning = {}
    /\ \A m \in Manifests :
          printedManifests[m] <= 1
          /\ (printedManifests[m] = 1 => m \notin srcManifests /\ hmPc[m] = "exit")

C31_Witness ==
    /\ pc = "done"
    /\ result.op = "DeleteManifest"
    /\ Len(page) = MaxEntries
    /\ \E i, j \in 1..Len(page) :
          /\ Digest(page[i].digest) = result.item
          /\ i < j
          /\ printedManifests[page[j].digest] = 1
          /\ page[j].digest \notin srcManifests
    /\ \E m \in srcManifests :
          /\ TagsOf(m) = {}
          /\ manDeletes[m] = 0
          /\ DigestRank(m) > DigestRank(page[Len(page)].digest)

\* the key of an entry of the current page: the tag's name or the
\* manifest's digest
EntryKey(kind, entry) ==
    IF kind = "tags" THEN TagString(entry.name) ELSE Digest(entry.digest)

\* C32: the first list request of an enumeration passes the empty cursor,
\* and every later one passes the key of the last entry of the page returned
\* before it, whether or not that entry was selected or deleted.
C32_CursorIsLastEntryKey ==
    [][lists' # lists =>
          LET request == lists'[Len(lists')] IN
          /\ lists' = Append(lists, request)
          /\ IF lists = <<>> \/ lists[Len(lists)].kind # request.kind
                THEN request.last = <<>>
                ELSE /\ page # <<>>
                     /\ request.last = EntryKey(request.kind, page[Len(page)])
      ]_vars

C32_Witness ==
    /\ filter # ""
    /\ Len(lists) >= 4
    /\ lists[1] = [kind |-> "tags", last |-> <<>>, err |-> FALSE]
    /\ lists[2] = [kind |-> "tags", last |-> <<MaxEntries>>, err |-> FALSE]
    /\ ~Eligible(MaxEntries)
    /\ srcTag[MaxEntries] # None
    /\ tagDeletes[1] = 1
    /\ \E i \in 3..(Len(lists) - 1) :
          /\ lists[i].kind = "manifests" /\ lists[i].last = <<>>
          /\ lists[i + 1].kind = "manifests"
          /\ \E m \in Manifests :
                lists[i + 1].last = Digest(m) /\ m \notin srcManifests

\* the errors of the delete calls of the tasks
DeleteFailures == { e \in failures : e.op \in {"AcrDeleteTag", "DeleteManifest"} }

\* the delete call issued for the identifier returned success
TagDeleted(t) == tagDeletes[t] > 0 /\ srcTag[t] = None

ManifestDeleted(m) == manDeletes[m] > 0 /\ m \notin srcManifests

\* C33 as stated: an identifier is reported if and only if its delete call
\* returned success, and at most once; a task whose delete failed reports
\* nothing and its error was sent on the error channel.
C33_ReportedIffDeleted ==
    /\ \A t \in TagIds :
          printedTags[t] = (IF TagDeleted(t) THEN 1 ELSE 0)
    /\ \A m \in Manifests :
          printedManifests[m] = (IF ManifestDeleted(m) THEN 1 ELSE 0)
    /\ \A e \in DeleteFailures :
          /\ e \in sent
          /\ \A t \in TagIds : e.item = <<t>> => printedTags[t] = 0
          /\ \A m \in Manifests : e.item = Digest(m) => printedManifests[m] = 0

\* C34 as stated: every entry of an ArchiveRecord carries as archiveTime the
\* instant at which the archive is performed (now), and a record is seeded
\* with the digest of its manifest and the source repository's name.
C34_ArchiveTimeIsNow ==
    \A m \in Manifests :
        srcMeta[m] # NoRecord =>
            /\ srcMeta[m].digest = Digest(m)
            /\ srcMeta[m].repo = RepoName
            /\ \A i \in 1..Len(srcMeta[m].tags) :
                  srcMeta[m].tags[i].archiveTime = Now

\* what a run leaves behind: the tags and the manifests it deleted, and
\* whether it returned an error
Outcome ==
    [tags |-> { t \in TagIds : TagDeleted(t) },
     manifests |-> { m \in Manifests : ManifestDeleted(m) },
     failed |-> result # Nil]

\* C35 as stated: the outcome of a run does not depend on the schedule of its
\* tasks: when RunE has returned, the outcome is the same whether or not the
\* scheduler lets a task take another step before the process ends.
C35_OutcomeFixedAtReturn ==
    [][pc = "done" => Outcome' = Outcome]_vars

====
